---- MODULE Spec2Model ----
(***************************************************************************)
(* qtp-diversity: the validate and generate_html_summary operations of the *)
(* Qiita diversity type plugin (src/qtp_diversity/validate.py and          *)
(* src/qtp_diversity/summary.py), as a state machine of one job.           *)
(*                                                                         *)
(* A job is one call of validate or of generate_html_summary.  Its inputs  *)
(* (the parameters, the file group, the text of the plain-text file, what  *)
(* the third-party parser makes of it, the metadata the host holds) are    *)
(* chosen in Init; the outcome of every call on a collaborator (host       *)
(* client, renderer) is chosen when the call is made.  A Python call ends  *)
(* by returning a value or by raising; both are outcomes of the model.     *)
(*                                                                         *)
(* Spec is one job.  SpecTwice is validate called twice on the same inputs *)
(* and the same out_dir, the host and the renderer's collaborators         *)
(* behaving the second time as they did the first.  SpecDir is the         *)
(* manifest check of the legacy directory artifacts, whose code the        *)
(* repository no longer holds: it follows the design document and the      *)
(* directory trees, removals and messages of tests/test_validate.py.       *)
(***************************************************************************)
EXTENDS Integers, Sequences, FiniteSets, TLC

VARIABLES
    op,            \* the entry point the job runs: "validate" or "summary"
    a_type,        \* parameters['artifact_type'] / artifact_info['type']
    template,      \* parameters.get('template'): NoneV or Some(id)
    analysis,      \* parameters.get('analysis') / artifact_info['analysis']
    preps,         \* artifact_info['prep_information']: a list of prep ids
    files,         \* the file group: role -> list of paths
    content,       \* the text of files['plain_text'][0], a sequence of characters
    parsed,        \* what DistanceMatrix.read / OrdinationResults.read make of it
    host_md,       \* the sample ids of the metadata the host holds
    pc,            \* the job's position
    metadata,      \* the local variable metadata, once fetched
    vres,          \* what the per-type validator returned
    rres,          \* what the summary renderer returned or raised
    result,        \* how the call ended: a returned triple or a raised exception
    calls,         \* the calls made on the host client, the validator and the
                   \* renderer, in order
    html_summary,  \* the artifact record's html_summary field on the host
    out_fs,        \* the paths that exist under out_dir
    host,          \* the answers the host has given to the GETs, by url
    renv,          \* what the renderer's collaborators do, once a renderer ran
    run,           \* which call of validate on these inputs this is: 1 or 2
    first_result,  \* how the first call ended, once the second has begun
    tree,          \* the paths that exist under the directory of a legacy artifact
    mpc,           \* the manifest entry the check is at; 0 when no check runs
    evaluated,     \* the manifest entries the current or last check evaluated
    mres           \* what the last manifest check returned: (ok, message)

vars == <<op, a_type, template, analysis, preps, files, content, parsed,
          host_md, pc, metadata, vres, rres, result, calls, html_summary,
          out_fs, host, renv, run, first_result, tree, mpc, evaluated, mres>>

\* the state of the check of a legacy directory artifact
legacy == <<tree, mpc, evaluated, mres>>

\* the calls of validate made so far on these inputs
runs == <<run, first_result>>

inputs == <<op, a_type, template, analysis, preps, files, content, parsed, host_md>>

----------------------------------------------------------------------------
(* Bounds of the model *)

\* the longest alpha-vector file, in characters
MaxFileChars == 6

\* the longest FeatureData file, in chunks of FeatureChunks
MaxHeaderChunks == 3

----------------------------------------------------------------------------
(* Python values *)

NoneV == [none |-> TRUE]

Some(v) == [none |-> FALSE, val |-> v]

\* a call that returned the triple (success, ainfo, error_msg)
Return(s, a, m) == [kind |-> "return", success |-> s, ainfo |-> a, error_msg |-> m]

\* a call that raised
Raise(e) == [kind |-> "raise", exc |-> e]

NoResult == [kind |-> "none"]

TAB == "\t"

NL == "\n"

\* the characters str.strip() removes
Whitespace == {" ", TAB, NL, "\r"}

RECURSIVE Concat(_)
\* the string made of a sequence of characters (or of strings)
Concat(cs) == IF cs = <<>> THEN "" ELSE Head(cs) \o Concat(Tail(cs))

RECURSIVE Join(_, _)
\* sep.join(strs)
Join(strs, sep) ==
    IF strs = <<>> THEN ""
    ELSE IF Len(strs) = 1 THEN strs[1]
    ELSE strs[1] \o sep \o Join(Tail(strs), sep)

\* os.path.join(out_dir, name)
PathJoin(dir, name) == dir \o "/" \o name

----------------------------------------------------------------------------
(* The inputs of a job *)

OutDir == "out"

PlainTextFp == "artifact.txt"

QzaFp == "artifact.qza"

\* the artifact types the plugin registers: src/qtp_diversity/__init__.py
RegisteredTypes ==
    {"distance_matrix", "ordination_results", "alpha_vector", "FeatureData", "SampleData"}

\* type tags the plugin does not register
UnknownTags == {"BIOM", "taxa_summary"}

ArtifactTypes == RegisteredTypes \cup UnknownTags

\* the characters of a type tag, for sorted()
TagChars(t) ==
    CASE t = "distance_matrix" ->
           <<"d","i","s","t","a","n","c","e","_","m","a","t","r","i","x">>
      [] t = "ordination_results" ->
           <<"o","r","d","i","n","a","t","i","o","n","_","r","e","s","u","l","t","s">>
      [] t = "alpha_vector" -> <<"a","l","p","h","a","_","v","e","c","t","o","r">>
      [] t = "FeatureData" -> <<"F","e","a","t","u","r","e","D","a","t","a">>
      [] t = "SampleData" -> <<"S","a","m","p","l","e","D","a","t","a">>
      [] t = "BIOM" -> <<"B","I","O","M">>
      [] t = "taxa_summary" -> <<"t","a","x","a","_","s","u","m","m","a","r","y">>

UpperCase ==
    <<"A","B","C","D","E","F","G","H","I","J","K","L","M",
      "N","O","P","Q","R","S","T","U","V","W","X","Y","Z">>

LowerCase ==
    <<"a","b","c","d","e","f","g","h","i","j","k","l","m",
      "n","o","p","q","r","s","t","u","v","w","x","y","z">>

\* the code point of a character of a type tag
Ord(c) ==
    IF \E i \in 1..26 : UpperCase[i] = c
    THEN 64 + (CHOOSE i \in 1..26 : UpperCase[i] = c)
    ELSE IF c = "_" THEN 95
    ELSE 96 + (CHOOSE i \in 1..26 : LowerCase[i] = c)

\* sample ids, as sequences of characters
SampleIds == {<<"a">>, <<"a", "a">>}

\* the file groups: plain_text holds one path (src/qtp_diversity/__init__.py
\* declares the role required), qza is absent, empty or holds one path
FileGroups ==
    { [plain_text |-> <<PlainTextFp>>],
      [plain_text |-> <<PlainTextFp>>, qza |-> <<>>],
      [plain_text |-> <<PlainTextFp>>, qza |-> <<QzaFp>>] }

\* the characters of an alpha-vector file
AlphaChars == {"a", TAB, NL}

RECURSIVE SeqsUpTo(_, _)
\* the sequences over S of length at most n
SeqsUpTo(S, n) ==
    IF n = 0 THEN {<<>>}
    ELSE LET shorter == SeqsUpTo(S, n - 1)
         IN shorter \cup {Append(s, c) : s \in {t \in shorter : Len(t) = n - 1}, c \in S}

AlphaFiles == SeqsUpTo(AlphaChars, MaxFileChars)

\* pieces a FeatureData file is put together from
FeatureChunks == {<<"T", "a", "x">>, <<"I", "D">>, <<">">>, <<"T", "a">>, <<"x">>, <<NL>>}

RECURSIVE Flatten(_)
Flatten(ss) == IF ss = <<>> THEN <<>> ELSE Head(ss) \o Flatten(Tail(ss))

FeatureFiles == {Flatten(cs) : cs \in SeqsUpTo(FeatureChunks, MaxHeaderChunks)}

\* what the scikit-bio readers make of a file: the sample ids, or a ParseError
ParseOutcomes == {[ok |-> FALSE, ids |-> {}]} \cup {[ok |-> TRUE, ids |-> S] : S \in SUBSET SampleIds}

----------------------------------------------------------------------------
(* Text: what open(), readline(), str.strip(), str.split() and `in` do *)

RECURSIVE FileLines(_)
\* the lines a text file yields, each with its line terminator; a text that
\* does not end in a newline ends with an unterminated line
FileLines(text) ==
    IF text = <<>> THEN <<>>
    ELSE IF \E i \in 1..Len(text) : text[i] = NL
    THEN LET i == CHOOSE k \in 1..Len(text) :
                      text[k] = NL /\ \A j \in 1..(k - 1) : text[j] # NL
         IN <<SubSeq(text, 1, i)>> \o FileLines(SubSeq(text, i + 1, Len(text)))
    ELSE <<text>>

\* f.readline(): the first line, '' at the end of the file
ReadLine(text) == IF text = <<>> THEN <<>> ELSE Head(FileLines(text))

\* what is left to iterate on after one readline()
RestLines(text) == IF text = <<>> THEN <<>> ELSE Tail(FileLines(text))

\* line.strip()
Strip(line) ==
    IF \A i \in 1..Len(line) : line[i] \in Whitespace THEN <<>>
    ELSE LET first == CHOOSE i \in 1..Len(line) :
                          line[i] \notin Whitespace
                          /\ \A j \in 1..(i - 1) : line[j] \in Whitespace
             last == CHOOSE i \in 1..Len(line) :
                         line[i] \notin Whitespace
                         /\ \A j \in (i + 1)..Len(line) : line[j] \in Whitespace
         IN SubSeq(line, first, last)

RECURSIVE Split(_, _)
\* s.split(sep), sep one character: '' splits into ['']
Split(s, sep) ==
    IF \A i \in 1..Len(s) : s[i] # sep THEN <<s>>
    ELSE LET i == CHOOSE k \in 1..Len(s) :
                      s[k] = sep /\ \A j \in 1..(k - 1) : s[j] # sep
         IN <<SubSeq(s, 1, i - 1)>> \o Split(SubSeq(s, i + 1, Len(s)), sep)

\* pat in line
Contains(line, pat) ==
    \E i \in 1..(Len(line) - Len(pat) + 1) : SubSeq(line, i, i + Len(pat) - 1) = pat

----------------------------------------------------------------------------
(* The registries *)

\* the keys of the dict validators, in the order it is written
ValidatorKeys ==
    <<"distance_matrix", "ordination_results", "alpha_vector", "FeatureData", "SampleData">>

\* the keys of HTML_SUMMARIZERS, in the order it is written
SummarizerKeys == <<"distance_matrix", "ordination_results", "alpha_vector">>

\* key in registry
InRegistry(key, keys) == \E i \in 1..Len(keys) : keys[i] = key

\* s < t on Python strings: by code point, a proper prefix first
StrLess(s, t) ==
    \E i \in 1..(Len(t)) :
        /\ \A j \in 1..(i - 1) : j <= Len(s) /\ Ord(s[j]) = Ord(t[j])
        /\ \/ i = Len(s) + 1
           \/ i <= Len(s) /\ Ord(s[i]) < Ord(t[i])

\* the keys in the order the dict holds them: no sort
Unsorted(keys) == keys

RECURSIVE Sorted(_)
\* sorted(keys), keys distinct
Sorted(keys) ==
    IF keys = <<>> THEN <<>>
    ELSE LET i == CHOOSE k \in 1..Len(keys) :
                      \A j \in 1..Len(keys) :
                          j = k \/ StrLess(TagChars(keys[k]), TagChars(keys[j]))
         IN <<keys[i]>> \o Sorted(SubSeq(keys, 1, i - 1) \o SubSeq(keys, i + 1, Len(keys)))

\* "Unknown artifact type %s. Supported types: %s" % (t, ", ".join(sorted(keys)))
UnknownTypeMsg(t, keys) ==
    "Unknown artifact type " \o t \o ". Supported types: " \o Join(Sorted(keys), ", ")

MissingMetadataMsg == "Missing metadata information"

----------------------------------------------------------------------------
(* The per-type validators: src/qtp_diversity/validate.py *)

\* ArtifactInfo(None, artifact_type, filepaths)
ArtifactInfo(t, filepaths) == [artifact_type |-> t, files |-> filepaths]

\* a.issuperset(b), read the wrong way round
IsSubsetOf(a, b) == a \subseteq b

\* a.issuperset(b)
IsSuperset(a, b) == b \subseteq a

\* the filepaths list every validator builds: the plain-text file, then the
\* qza file when there is one
Filepaths(fp, qza) ==
    IF qza # NoneV THEN <<<<fp, "plain_text">>, <<qza.val, "qza">>>>
    ELSE <<<<fp, "plain_text">>>>

\* the lines  x_qza = None; if 'qza' in files: x_qza = files['qza'][0]  raise
\* IndexError on an empty list
QzaIndexError(fs) == "qza" \in DOMAIN fs /\ fs["qza"] = <<>>

\* the value these lines leave in x_qza
QzaOf(fs) == IF "qza" \in DOMAIN fs THEN Some(fs["qza"][1]) ELSE NoneV

DmMismatchMsg == "The distance matrix contain samples not present in the metadata"

OrdMismatchMsg == "The ordination results contain samples not present in the metadata"

AlphaMismatchMsg == "The alpha vector contains samples not present in the metadata"

AlphaFormatMsg == "The alpha vector format is incorrect"

MissingQzaMsg == "The artifact is missing a QZA file"

\* _validate_distance_matrix(files, metadata, out_dir); prs is what
\* DistanceMatrix.read makes of the file
ValidateDistanceMatrix(fs, md, prs) ==
    IF QzaIndexError(fs) THEN Raise("IndexError")
    ELSE IF ~prs.ok THEN Raise("ParseError")
    ELSE LET dm_fp == fs["plain_text"][1]
             dm_qza == QzaOf(fs)
             dm_ids == prs.ids
             metadata_ids == md
         IN IF ~IsSuperset(metadata_ids, dm_ids)
            THEN Return(FALSE, NoneV, DmMismatchMsg)
            ELSE Return(TRUE,
                        Some(<<ArtifactInfo("distance_matrix", Filepaths(dm_fp, dm_qza))>>),
                        "")

\* _validate_ordination_results(files, metadata, out_dir); prs is what
\* OrdinationResults.read makes of the file
ValidateOrdinationResults(fs, md, prs) ==
    IF QzaIndexError(fs) THEN Raise("IndexError")
    ELSE IF ~prs.ok THEN Raise("ParseError")
    ELSE LET ord_res_fp == fs["plain_text"][1]
             ord_res_qza == QzaOf(fs)
             ord_res_ids == prs.ids
             metadata_ids == md
         IN IF ~IsSuperset(metadata_ids, ord_res_ids)
            THEN Return(FALSE, NoneV, OrdMismatchMsg)
            ELSE Return(TRUE,
                        Some(<<ArtifactInfo("ordination_results",
                                            Filepaths(ord_res_fp, ord_res_qza))>>),
                        "")

RECURSIVE AlphaLoop(_, _)
\* for line in f: ... of _validate_alpha_vector: the ids of the lines, or the
\* early return at the first line that has not two fields
AlphaLoop(lines, alpha_ids) ==
    IF lines = <<>> THEN [ok |-> TRUE, ids |-> alpha_ids]
    ELSE LET vals == Split(Strip(Head(lines)), TAB)
         IN IF Len(vals) # 2 THEN [ok |-> FALSE, ids |-> alpha_ids]
            ELSE AlphaLoop(Tail(lines), Append(alpha_ids, vals[1]))

\* set(alpha_ids)
SetOf(seq) == {seq[i] : i \in 1..Len(seq)}

\* _validate_alpha_vector with the two checks in the other order: the ids read
\* so far are checked against the metadata before the format is reported
ValidateAlphaVectorIdsFirst(fs, md, text) ==
    IF QzaIndexError(fs) THEN Raise("IndexError")
    ELSE LET loop == AlphaLoop(RestLines(text), <<>>)
         IN IF ~IsSuperset(md, SetOf(loop.ids))
            THEN Return(FALSE, NoneV, AlphaMismatchMsg)
            ELSE IF ~loop.ok THEN Return(FALSE, NoneV, AlphaFormatMsg)
            ELSE Return(TRUE,
                        Some(<<ArtifactInfo("alpha_vector",
                                            Filepaths(fs["plain_text"][1], QzaOf(fs)))>>),
                        "")

\* _validate_alpha_vector(files, metadata, out_dir); text is what the file holds
ValidateAlphaVector(fs, md, text) ==
    IF QzaIndexError(fs) THEN Raise("IndexError")
    ELSE LET alpha_vector == fs["plain_text"][1]
             alpha_qza == QzaOf(fs)
             loop == AlphaLoop(RestLines(text), <<>>)
             metadata_ids == md
             alpha_ids == SetOf(loop.ids)
         IN IF ~loop.ok THEN Return(FALSE, NoneV, AlphaFormatMsg)
            ELSE IF ~IsSuperset(metadata_ids, alpha_ids)
            THEN Return(FALSE, NoneV, AlphaMismatchMsg)
            ELSE Return(TRUE,
                        Some(<<ArtifactInfo("alpha_vector",
                                            Filepaths(alpha_vector, alpha_qza))>>),
                        "")

\* 'The file header seems wrong "%s"' % line
HeaderMsg(line) == "The file header seems wrong \"" \o Concat(line) \o "\""

\* _validate_feature_data(files, metadata, out_dir); text is what the file holds
ValidateFeatureData(fs, md, text) ==
    IF QzaIndexError(fs) THEN Raise("IndexError")
    ELSE LET fdt == fs["plain_text"][1]
             fdt_qza == QzaOf(fs)
             line == ReadLine(text)
         IN IF ~Contains(line, <<"T", "a", "x">>) \/ ~Contains(line, <<"I", "D">>)
            THEN \* the right operand of `and` is evaluated: line[0]
                 IF line = <<>> THEN Raise("IndexError")
                 ELSE IF line[1] # ">" THEN Return(FALSE, NoneV, HeaderMsg(line))
                 ELSE Return(TRUE,
                             Some(<<ArtifactInfo("FeatureData", Filepaths(fdt, fdt_qza))>>),
                             "")
            ELSE Return(TRUE,
                        Some(<<ArtifactInfo("FeatureData", Filepaths(fdt, fdt_qza))>>),
                        "")

\* the guard of _validate_sample_data that only asks for the role
QzaMissingRoleOnly(fs) == "qza" \notin DOMAIN fs

\* 'qza' not in files or not files['qza']
QzaMissing(fs) == "qza" \notin DOMAIN fs \/ fs["qza"] = <<>>

\* _validate_sample_data(files, metadata, out_dir)
ValidateSampleData(fs, md) ==
    LET fdt == fs["plain_text"][1]
    IN IF QzaMissing(fs) THEN Return(FALSE, NoneV, MissingQzaMsg)
       ELSE IF fs["qza"] = <<>> THEN Raise("IndexError")
       ELSE LET fdt_qza == Some(fs["qza"][1])
            IN Return(TRUE,
                      Some(<<ArtifactInfo("SampleData", Filepaths(fdt, fdt_qza))>>),
                      "")

\* validators[a_type](files, metadata, out_dir)
Validator(t, fs, md, text, prs) ==
    CASE t = "distance_matrix" -> ValidateDistanceMatrix(fs, md, prs)
      [] t = "ordination_results" -> ValidateOrdinationResults(fs, md, prs)
      [] t = "alpha_vector" -> ValidateAlphaVector(fs, md, text)
      [] t = "FeatureData" -> ValidateFeatureData(fs, md, text)
      [] t = "SampleData" -> ValidateSampleData(fs, md)

----------------------------------------------------------------------------
(* The summary renderers: src/qtp_diversity/summary.py *)

\* a renderer that returned the pair (html_fp, html_dir)
RPair(fp, dir) == [kind |-> "return", arity |-> 2, html_fp |-> fp, html_dir |-> dir]

\* a renderer that returned the triple (False, None, error_msg)
RTriple(msg) == [kind |-> "return", arity |-> 3, html_fp |-> "", html_dir |-> NoneV,
                 error_msg |-> msg]

\* what the renderers' collaborators do: whether a library call (plotting,
\* emperor, qiime2) fails, and the exit codes of the two qiime commands
RenderEnvs == [fails : BOOLEAN, import_rc : {0, 1}, signif_rc : {0, 1}]

\* the collaborators the renderer of type t has: a plotting or reading
\* library for all three, the two qiime commands for alpha_vector; the first
\* failure ends the renderer
RenderEnvsOf(t) ==
    {env \in RenderEnvs :
       /\ t # "alpha_vector" => (env.import_rc = 0 /\ env.signif_rc = 0)
       /\ t \notin {"distance_matrix", "ordination_results", "alpha_vector"} => ~env.fails
       /\ env.import_rc # 0 => (env.signif_rc = 0 /\ ~env.fails)
       /\ env.signif_rc # 0 => ~env.fails}

\* makedirs(path, exist_ok=True)
MakedirsExistOk(path, fs) == FALSE

\* makedirs(path) raises FileExistsError when the path exists
MakedirsRaises(path, fs) == path \in fs

\* _generate_distance_matrix_summary(files, metadata, out_dir)
GenerateDistanceMatrixSummary(prs, out_dir, env) ==
    IF ~prs.ok THEN Raise("ParseError")
    ELSE IF env.fails THEN Raise("RenderError")
    ELSE RPair(PathJoin(out_dir, "index.html"), NoneV)

\* _generate_ordination_results_summary(files, metadata, out_dir)
GenerateOrdinationResultsSummary(prs, out_dir, env, fs) ==
    IF ~prs.ok THEN Raise("ParseError")
    ELSE IF env.fails THEN Raise("RenderError")
    ELSE IF MakedirsRaises(PathJoin(out_dir, "emperor_support_files"), fs)
    THEN Raise("FileExistsError")
    ELSE RPair(PathJoin(out_dir, "index.html"),
               Some(PathJoin(out_dir, "emperor_support_files")))

\* _generate_alpha_vector_summary(files, metadata, out_dir)
GenerateAlphaVectorSummary(out_dir, env) ==
    IF env.import_rc # 0
    THEN RTriple("Error converting the alpha vectors file to Q2 artifact")
    ELSE IF env.signif_rc # 0 THEN Raise("RuntimeError")
    ELSE IF env.fails THEN Raise("RenderError")
    ELSE RPair(PathJoin(out_dir, "index.html"), Some(PathJoin(out_dir, "support_files")))

\* HTML_SUMMARIZERS[a_type](files, metadata, out_dir)
Summarizer(t, prs, out_dir, env, fs) ==
    IF ~InRegistry(t, SummarizerKeys) THEN Raise("KeyError")
    ELSE CASE t = "distance_matrix" -> GenerateDistanceMatrixSummary(prs, out_dir, env)
           [] t = "ordination_results" ->
                GenerateOrdinationResultsSummary(prs, out_dir, env, fs)
           [] t = "alpha_vector" -> GenerateAlphaVectorSummary(out_dir, env)

\* the paths the renderer of type t leaves under out_dir: what it created
\* before it returned or raised
Written(t, prs, out_dir, env, fs) ==
    CASE t = "distance_matrix" ->
           IF prs.ok /\ ~env.fails THEN {PathJoin(out_dir, "index.html")} ELSE {}
      [] t = "ordination_results" ->
           IF GenerateOrdinationResultsSummary(prs, out_dir, env, fs).kind = "return"
           THEN {PathJoin(out_dir, "emperor_support_files"),
                 PathJoin(out_dir, "index.html")}
           ELSE {}
      [] t = "alpha_vector" ->
           IF env.import_rc # 0 THEN {}
           ELSE {PathJoin(out_dir, "alpha_vectors.qza"),
                 PathJoin(out_dir, "sample-metadata.tsv")}
                \cup (IF env.signif_rc # 0 THEN {}
                      ELSE {PathJoin(out_dir, "alpha_vectors.qzv")}
                           \cup (IF env.fails THEN {}
                                 ELSE {PathJoin(out_dir, "support_files"),
                                       PathJoin(out_dir, "index.html")}))
      [] OTHER -> {}

\* html_fp, html_dir = <what the renderer returned>: unpacking three values
\* into two names raises ValueError
Unpack2(r) ==
    IF r.kind = "raise" THEN r
    ELSE IF r.arity # 2 THEN Raise("ValueError")
    ELSE r

----------------------------------------------------------------------------
(* The host client *)

\* "%s" % x, x an id or None
Fmt(x) == IF x = NoneV THEN "None" ELSE x.val

PrepUrl(id) == "/qiita_db/prep_template/" \o Fmt(id) \o "/data/"

AnalysisUrl(id) == "/qiita_db/analysis/" \o Fmt(id) \o "/metadata/"

ArtifactId == "7"

ArtifactUrl == "/qiita_db/artifacts/" \o ArtifactId \o "/"

\* one call on a collaborator
Call(fn, arg) == [fn |-> fn, arg |-> arg]

\* str(e) of the exceptions qclient.patch raises
StoreErrors == {"Request 'PATCH' did not succeed", "Connection refused"}

\* the answers the host can give to the GET of url: the one it gave before,
\* if it was asked before
HostAnswers(url) ==
    IF \E a \in host : a.url = url
    THEN {a.found : a \in {b \in host : b.url = url}}
    ELSE BOOLEAN

\* the host has answered the GET of url
Answered(url, found) == host \cup {[url |-> url, found |-> found]}

PrepIds == {"1"}

AnalysisIds == {"2"}

----------------------------------------------------------------------------
(* The job *)

NoParse == [ok |-> FALSE, ids |-> {}]

\* the text of the plain-text file, for the types whose validator reads it itself
ContentsOf(o, t) ==
    IF o = "validate" /\ t = "alpha_vector" THEN AlphaFiles
    ELSE IF o = "validate" /\ t = "FeatureData" THEN FeatureFiles
    ELSE {<<>>}

\* what the scikit-bio reader makes of the file, for the types read with it
ParsedOf(t) ==
    IF t \in {"distance_matrix", "ordination_results"} THEN ParseOutcomes ELSE {NoParse}

Init ==
    /\ op \in {"validate", "summary"}
    /\ a_type \in ArtifactTypes
    /\ analysis \in {NoneV} \cup {Some(id) : id \in AnalysisIds}
    /\ \/ op = "validate"
          /\ template \in {NoneV} \cup {Some(id) : id \in PrepIds}
          /\ preps = <<>>
       \/ op = "summary"
          /\ template = NoneV
          /\ preps \in {<<>>} \cup {<<id>> : id \in PrepIds}
    /\ files \in FileGroups
    /\ content \in ContentsOf(op, a_type)
    /\ parsed \in ParsedOf(a_type)
    /\ host_md \in SUBSET SampleIds
    /\ pc = "start"
    /\ metadata = NoneV
    /\ vres = NoResult
    /\ rres = NoResult
    /\ result = NoResult
    /\ calls = <<>>
    /\ html_summary = NoneV
    /\ out_fs = {}
    /\ host = {}
    /\ renv = NoneV
    /\ run = 1
    /\ first_result = NoResult
    /\ tree = {}
    /\ mpc = 0
    /\ evaluated = {}
    /\ mres = NoResult

\* the call ends: it returns the triple r, or raises
Finish(r) == result' = r /\ pc' = "done"

(* validate, src/qtp_diversity/validate.py:135-193 *)

\* the metadata source when a job must name exactly one of the two
MetadataSourceXor(prep_id, analysis_id) ==
    IF prep_id # NoneV /\ analysis_id = NoneV THEN "prep"
    ELSE IF prep_id = NoneV /\ analysis_id # NoneV THEN "analysis"
    ELSE "none"

\* the metadata source without the final else: the analysis, set or not
MetadataSourceNoElse(prep_id, analysis_id) ==
    IF prep_id # NoneV THEN "prep" ELSE "analysis"

\* if prep_id is not None: ... elif analysis_id is not None: ... else: ...
MetadataSource(prep_id, analysis_id) ==
    IF prep_id # NoneV THEN "prep"
    ELSE IF analysis_id # NoneV THEN "analysis"
    ELSE "none"

\* the type lookup made after the job step was updated
ValidateLookupAfterStep ==
    /\ op = "validate" /\ pc = "start"
    /\ calls' = Append(calls, Call("update_job_step", "Step 1: Collecting metadata"))
    /\ IF ~InRegistry(a_type, ValidatorKeys)
       THEN Finish(Return(FALSE, NoneV, UnknownTypeMsg(a_type, ValidatorKeys)))
       ELSE pc' = "collect" /\ UNCHANGED result
    /\ UNCHANGED <<inputs, metadata, vres, rres, html_summary>>
    /\ UNCHANGED <<out_fs, host, renv, runs>>
    /\ UNCHANGED legacy

\* lines 156-170: the parameters, and the type lookup
ValidateLookup ==
    /\ op = "validate" /\ pc = "start"
    /\ IF ~InRegistry(a_type, ValidatorKeys)
       THEN Finish(Return(FALSE, NoneV, UnknownTypeMsg(a_type, ValidatorKeys)))
       ELSE pc' = "collect" /\ UNCHANGED result
    /\ UNCHANGED <<inputs, metadata, vres, rres, calls, html_summary>>
    /\ UNCHANGED <<out_fs, host, renv, runs>>
    /\ UNCHANGED legacy

\* lines 172-180: the job step, then the metadata of the prep template, else
\* of the analysis, else the early return; found tells whether the host
\* answers the GET
ValidateGetMetadata ==
    /\ op = "validate" /\ pc = "collect"
    /\ LET step == Call("update_job_step", "Step 1: Collecting metadata")
           source == MetadataSource(template, analysis)
       IN IF source = "prep"
          THEN \E found \in HostAnswers(PrepUrl(template)) :
                 /\ calls' = calls \o <<step, Call("get", PrepUrl(template))>>
                 /\ host' = Answered(PrepUrl(template), found)
                 /\ IF found
                    THEN metadata' = Some(host_md) /\ pc' = "validate" /\ UNCHANGED result
                    ELSE Finish(Raise("NotFound")) /\ UNCHANGED metadata
          ELSE IF source = "analysis"
          THEN \E found \in HostAnswers(AnalysisUrl(analysis)) :
                 /\ calls' = calls \o <<step, Call("get", AnalysisUrl(analysis))>>
                 /\ host' = Answered(AnalysisUrl(analysis), found)
                 /\ IF found
                    THEN metadata' = Some(host_md) /\ pc' = "validate" /\ UNCHANGED result
                    ELSE Finish(Raise("NotFound")) /\ UNCHANGED metadata
          ELSE /\ calls' = Append(calls, step)
               /\ Finish(Return(FALSE, NoneV, MissingMetadataMsg))
               /\ UNCHANGED <<metadata, host>>
    /\ UNCHANGED <<inputs, vres, rres, html_summary, out_fs, renv, runs>>
    /\ UNCHANGED legacy

\* line 183: the per-type validator
ValidateSpecificType ==
    /\ op = "validate" /\ pc = "validate"
    /\ calls' = Append(calls, Call("validate", a_type))
    /\ LET out == Validator(a_type, files, metadata.val, content, parsed)
       IN IF out.kind = "raise"
          THEN Finish(out) /\ UNCHANGED vres
          ELSE vres' = out /\ pc' = "summarize" /\ UNCHANGED result
    /\ UNCHANGED <<inputs, metadata, rres, html_summary>>
    /\ UNCHANGED <<out_fs, host, renv, runs>>
    /\ UNCHANGED legacy

\* validate without lines 189-191: the ArtifactInfo as the validator built it
WithoutSummaryFiles(ainfo, r) == ainfo

\* ainfo[0].files.append(...) of lines 189-191
WithSummaryFiles(ainfo, r) ==
    LET withHtml == Append(ainfo[1].files, <<r.html_fp, "html_summary">>)
        withDir == IF r.html_dir # NoneV
                   THEN Append(withHtml, <<r.html_dir.val, "html_summary_dir">>)
                   ELSE withHtml
    IN <<[ainfo[1] EXCEPT !.files = withDir]>> \o Tail(ainfo)

\* what the renderer's collaborators can do now: what they did before, if a
\* renderer ran before
EnvsLeft == IF renv = NoneV THEN RenderEnvsOf(a_type) ELSE {renv.val}

\* a try block around line 187 that reports the exception as the message
RenderFailedSoftly(r) == Return(FALSE, NoneV, r.exc)

\* line 187 stands in no try block: what the lookup, the renderer or the
\* unpacking raises leaves validate
RenderFailed(r) == r

\* lines 185-193: on success the renderer of the type, its two outputs
\* appended to the files of the ArtifactInfo; then the return. rres is what
\* the renderer returned or raised
ValidateSummarize ==
    /\ op = "validate" /\ pc = "summarize"
    /\ IF vres.success
       THEN \E env \in EnvsLeft :
              LET out == Summarizer(a_type, parsed, OutDir, env, out_fs)
                  r == Unpack2(out)
              IN /\ calls' = IF InRegistry(a_type, SummarizerKeys)
                             THEN Append(calls, Call("render", a_type))
                             ELSE calls
                 /\ renv' = Some(env)
                 /\ out_fs' = out_fs \cup Written(a_type, parsed, OutDir, env, out_fs)
                 /\ rres' = IF InRegistry(a_type, SummarizerKeys) THEN out ELSE rres
                 /\ IF r.kind = "raise"
                    THEN Finish(RenderFailed(r))
                    ELSE Finish(Return(vres.success,
                                       Some(WithSummaryFiles(vres.ainfo.val, r)),
                                       vres.error_msg))
       ELSE /\ Finish(Return(vres.success, vres.ainfo, vres.error_msg))
            /\ UNCHANGED <<rres, calls, renv, out_fs>>
    /\ UNCHANGED <<inputs, metadata, vres, html_summary, host, runs>>
    /\ UNCHANGED legacy

(* generate_html_summary, src/qtp_diversity/summary.py:149-208 *)

\* lines 170-175: the artifact record; found tells whether the host answers
SummaryGetArtifact ==
    /\ op = "summary" /\ pc = "start"
    /\ calls' = Append(calls, Call("get", ArtifactUrl))
    /\ \E found \in HostAnswers(ArtifactUrl) :
         /\ host' = Answered(ArtifactUrl, found)
         /\ IF found THEN pc' = "lookup" /\ UNCHANGED result
            ELSE Finish(Raise("NotFound"))
    /\ UNCHANGED <<inputs, metadata, vres, rres, html_summary, out_fs, renv, runs>>
    /\ UNCHANGED legacy

\* lines 177-179: the type lookup
SummaryLookup ==
    /\ op = "summary" /\ pc = "lookup"
    /\ IF ~InRegistry(a_type, SummarizerKeys)
       THEN Finish(Return(FALSE, NoneV, UnknownTypeMsg(a_type, SummarizerKeys)))
       ELSE pc' = "collect" /\ UNCHANGED result
    /\ UNCHANGED <<inputs, metadata, vres, rres, calls, html_summary>>
    /\ UNCHANGED <<out_fs, host, renv, runs>>
    /\ UNCHANGED legacy

\* the metadata source without the final else: the analysis, set or not
SummaryMetadataSourceNoElse(prep_information, analysis_id) ==
    IF prep_information # <<>> THEN "prep" ELSE "analysis"

\* if preps: ... elif analysis_id is not None: ... else: ...
SummaryMetadataSource(prep_information, analysis_id) ==
    IF prep_information # <<>> THEN "prep"
    ELSE IF analysis_id # NoneV THEN "analysis"
    ELSE "none"

\* lines 181-190: the metadata of the first prep, else of the analysis, else
\* the early return
SummaryGetMetadata ==
    /\ op = "summary" /\ pc = "collect"
    /\ IF SummaryMetadataSource(preps, analysis) = "prep"
       THEN \E found \in HostAnswers(PrepUrl(Some(preps[1]))) :
              /\ calls' = Append(calls, Call("get", PrepUrl(Some(preps[1]))))
              /\ host' = Answered(PrepUrl(Some(preps[1])), found)
              /\ IF found
                 THEN metadata' = Some(host_md) /\ pc' = "render" /\ UNCHANGED result
                 ELSE Finish(Raise("NotFound")) /\ UNCHANGED metadata
       ELSE IF SummaryMetadataSource(preps, analysis) = "analysis"
       THEN \E found \in HostAnswers(AnalysisUrl(analysis)) :
              /\ calls' = Append(calls, Call("get", AnalysisUrl(analysis)))
              /\ host' = Answered(AnalysisUrl(analysis), found)
              /\ IF found
                 THEN metadata' = Some(host_md) /\ pc' = "render" /\ UNCHANGED result
                 ELSE Finish(Raise("NotFound")) /\ UNCHANGED metadata
       ELSE /\ Finish(Return(FALSE, NoneV, MissingMetadataMsg))
            /\ UNCHANGED <<metadata, calls, host>>
    /\ UNCHANGED <<inputs, vres, rres, html_summary, out_fs, renv, runs>>
    /\ UNCHANGED legacy

\* lines 192-193: the renderer of the type
SummaryRender ==
    /\ op = "summary" /\ pc = "render"
    /\ calls' = Append(calls, Call("render", a_type))
    /\ \E env \in EnvsLeft :
         LET out == Summarizer(a_type, parsed, OutDir, env, out_fs)
             r == Unpack2(out)
         IN /\ rres' = out
            /\ renv' = Some(env)
            /\ out_fs' = out_fs \cup Written(a_type, parsed, OutDir, env, out_fs)
            /\ IF r.kind = "raise"
               THEN Finish(r)
               ELSE pc' = "patch" /\ UNCHANGED result
    /\ UNCHANGED <<inputs, metadata, vres, html_summary, host, runs>>
    /\ UNCHANGED legacy

\* dumps({'html': html_fp, 'dir': html_dir})
DumpsHtmlDir(html_fp, html_dir) ==
    "{\"html\": \"" \o html_fp \o "\", \"dir\": \"" \o html_dir \o "\"}"

\* the patch value that leaves the directory out
PatchValHtmlOnly(r) == r.html_fp

\* lines 195-198
PatchVal(r) ==
    IF r.html_dir # NoneV /\ r.html_dir.val # ""
    THEN DumpsHtmlDir(r.html_fp, r.html_dir.val)
    ELSE r.html_fp

\* no except clause: the exception of the patch leaves the call
PatchFailedRaises(e) == Raise(e)

\* the except clause that keeps success = True
PatchFailedStillSuccess(e) == Return(TRUE, NoneV, e)

\* lines 204-208: except Exception as e: success = False; error_msg = str(e)
PatchFailed(e) == Return(FALSE, NoneV, e)

\* the patch tried a second time when the first attempt raised
SummaryPatchRetry ==
    /\ op = "summary" /\ pc = "patch"
    /\ \/ /\ calls' = Append(calls, Call("patch", ArtifactUrl))
          /\ html_summary' = Some(PatchVal(rres))
          /\ Finish(Return(TRUE, NoneV, ""))
       \/ \E e \in StoreErrors :
            /\ calls' = calls \o <<Call("patch", ArtifactUrl), Call("patch", ArtifactUrl)>>
            /\ Finish(PatchFailed(e))
            /\ UNCHANGED html_summary
    /\ UNCHANGED <<inputs, metadata, vres, rres, out_fs, host, renv, runs>>
    /\ UNCHANGED legacy

\* lines 200-208: the patch of the artifact record, an exception of it
\* turned into the error message; then the return
SummaryPatch ==
    /\ op = "summary" /\ pc = "patch"
    /\ calls' = Append(calls, Call("patch", ArtifactUrl))
    /\ \/ /\ html_summary' = Some(PatchVal(rres))
          /\ Finish(Return(TRUE, NoneV, ""))
       \/ \E e \in StoreErrors :
            /\ Finish(PatchFailed(e))
            /\ UNCHANGED html_summary
    /\ UNCHANGED <<inputs, metadata, vres, rres, out_fs, host, renv, runs>>
    /\ UNCHANGED legacy

Next ==
    \/ ValidateLookup
    \/ ValidateGetMetadata
    \/ ValidateSpecificType
    \/ ValidateSummarize
    \/ SummaryGetArtifact
    \/ SummaryLookup
    \/ SummaryGetMetadata
    \/ SummaryRender
    \/ SummaryPatch

Spec == Init /\ [][Next]_vars

(* validate called twice on the same inputs *)

\* the host calls validate again with the same parameters, file group and
\* out_dir; the out_dir is as the first call left it, the host and the
\* renderer's collaborators behave as they did
ValidateAgain ==
    /\ op = "validate" /\ pc = "done" /\ run = 1
    /\ run' = 2
    /\ first_result' = result
    /\ pc' = "start"
    /\ metadata' = NoneV
    /\ vres' = NoResult
    /\ rres' = NoResult
    /\ result' = NoResult
    /\ calls' = <<>>
    /\ UNCHANGED <<inputs, html_summary, out_fs, host, renv>>
    /\ UNCHANGED legacy

InitValidate == Init /\ op = "validate"

NextTwice ==
    \/ ValidateLookup
    \/ ValidateGetMetadata
    \/ ValidateSpecificType
    \/ ValidateSummarize
    \/ ValidateAgain

SpecTwice == InitValidate /\ [][NextTwice]_vars

----------------------------------------------------------------------------
(* The legacy directory artifacts and their manifest check *)

\* the highest level of the summarized tables, table_L2 up to table_L<n>
MaxTableLevel == 3

\* a file or directory name is a sequence of pieces; a pattern has "*" among
\* its pieces
LogName == <<"log_", "SOMEDATE", ".txt">>

DmName == <<"SOME_METRIC", "_dm.txt">>

PcName == <<"SOME_METRIC", "_pc.txt">>

EmperorName == <<"SOME_METRIC", "_emperor_pcoa_plot">>

TableName(i, ext) == <<"table_L", ToString(i), ext>>

TableLevels == 2..MaxTableLevel

\* a literal name, in one piece
Lit(name) == <<name>>

\* the directory trees the tests build: every path is a sequence of names
DistanceMatrixTree ==
    {<<LogName>>, <<DmName>>, <<PcName>>, <<EmperorName>>,
     <<EmperorName, Lit("index.html")>>,
     <<EmperorName, Lit("emperor_required_resources")>>}

RarefactionCurvesTree ==
    {<<LogName>>,
     <<Lit("alpha_div_collated")>>,
     <<Lit("alpha_div_collated"), Lit("PD_whole_tree.txt")>>,
     <<Lit("alpha_rarefaction_plots")>>,
     <<Lit("alpha_rarefaction_plots"), Lit("rarefaction_plots.html")>>,
     <<Lit("alpha_rarefaction_plots"), Lit("average_plots")>>,
     <<Lit("alpha_rarefaction_plots"), Lit("average_plots"), Lit("image.png")>>}

TaxaSummaryTree ==
    {<<LogName>>}
    \cup {<<TableName(i, ".txt")>> : i \in TableLevels}
    \cup {<<TableName(i, ".biom")>> : i \in TableLevels}
    \cup {<<Lit("taxa_summary_plots")>>,
          <<Lit("taxa_summary_plots"), Lit("area_charts.html")>>,
          <<Lit("taxa_summary_plots"), Lit("bar_charts.html")>>,
          <<Lit("taxa_summary_plots"), Lit("charts")>>,
          <<Lit("taxa_summary_plots"), Lit("charts"), Lit("figure.png")>>,
          <<Lit("taxa_summary_plots"), Lit("css")>>,
          <<Lit("taxa_summary_plots"), Lit("css"), Lit("qiime_style.css")>>,
          <<Lit("taxa_summary_plots"), Lit("js")>>,
          <<Lit("taxa_summary_plots"), Lit("js"), Lit("overlib.js")>>,
          <<Lit("taxa_summary_plots"), Lit("raw_data")>>,
          <<Lit("taxa_summary_plots"), Lit("raw_data"), Lit("table.txt")>>}

LegacyTypes == {"distance_matrix", "rarefaction_curves", "taxa_summary"}

FullTree(t) ==
    CASE t = "distance_matrix" -> DistanceMatrixTree
      [] t = "rarefaction_curves" -> RarefactionCurvesTree
      [] t = "taxa_summary" -> TaxaSummaryTree

\* one manifest entry: (path pattern, failure message)
Entry(pattern, message) == [pattern |-> pattern, message |-> message]

\* the manifest of _validate_distance_matrix(dir)
DistanceMatrixManifest ==
    <<Entry(<<<<"log_", "*", ".txt">>>>, "Missing log file"),
      Entry(<<<<"*", "_dm.txt">>>>, "Missing distance matrix file"),
      Entry(<<<<"*", "_pc.txt">>>>, "Missing principal coordinates file"),
      Entry(<<<<"*", "_emperor_pcoa_plot">>>>, "Missing emperor plots directory"),
      Entry(<<<<"*", "_emperor_pcoa_plot">>, Lit("index.html")>>,
            "Missing emperor index HTML file"),
      Entry(<<<<"*", "_emperor_pcoa_plot">>, Lit("emperor_required_resources")>>,
            "Missing emperor required resources directory")>>

\* the manifest of _validate_rarefaction_curves(dir)
RarefactionCurvesManifest ==
    <<Entry(<<<<"log_", "*", ".txt">>>>, "Missing log file"),
      Entry(<<Lit("alpha_div_collated")>>, "Missing alpha_div_collated directory"),
      Entry(<<Lit("alpha_rarefaction_plots")>>,
            "Missing alpha_rarefaction_plots directory"),
      Entry(<<Lit("alpha_div_collated"), <<"*">>>>,
            "Empty alpha_div_collated directory"),
      Entry(<<Lit("alpha_rarefaction_plots"), Lit("rarefaction_plots.html")>>,
            "Missing rarefaction plots HTML file"),
      Entry(<<Lit("alpha_rarefaction_plots"), Lit("average_plots")>>,
            "Missing average plots directory"),
      Entry(<<Lit("alpha_rarefaction_plots"), Lit("average_plots"), <<"*">>>>,
            "Empty average plots directory")>>

\* the manifest of _validate_taxa_summary(dir)
TaxaSummaryManifest ==
    <<Entry(<<<<"log_", "*", ".txt">>>>, "Missing log file"),
      Entry(<<<<"table_L", "*", ".biom">>>>, "Missing summarized biom files"),
      Entry(<<<<"table_L", "*", ".txt">>>>, "Missing summarized txt files"),
      Entry(<<Lit("taxa_summary_plots")>>, "Missing taxonomy summary plots directory"),
      Entry(<<Lit("taxa_summary_plots"), Lit("area_charts.html")>>,
            "Missing area charts file"),
      Entry(<<Lit("taxa_summary_plots"), Lit("bar_charts.html")>>,
            "Missing bar charts file"),
      Entry(<<Lit("taxa_summary_plots"), Lit("charts")>>, "Missing charts directory"),
      Entry(<<Lit("taxa_summary_plots"), Lit("charts"), <<"*">>>>,
            "Empty charts directory"),
      Entry(<<Lit("taxa_summary_plots"), Lit("css")>>, "Missing css directory"),
      Entry(<<Lit("taxa_summary_plots"), Lit("css"), Lit("qiime_style.css")>>,
            "Missing qiime style css file"),
      Entry(<<Lit("taxa_summary_plots"), Lit("js")>>, "Missing js directory"),
      Entry(<<Lit("taxa_summary_plots"), Lit("js"), Lit("overlib.js")>>,
            "Missing overlib js file"),
      Entry(<<Lit("taxa_summary_plots"), Lit("raw_data")>>, "Missing raw data directory"),
      Entry(<<Lit("taxa_summary_plots"), Lit("raw_data"), <<"*">>>>,
            "Empty raw data directory")>>

ManifestOf(t) ==
    CASE t = "distance_matrix" -> DistanceMatrixManifest
      [] t = "rarefaction_curves" -> RarefactionCurvesManifest
      [] t = "taxa_summary" -> TaxaSummaryManifest

RECURSIVE GlobMatch(_, _)
\* fnmatch of one name against one pattern segment: "*" stands for any run
\* of pieces, every other piece for itself
GlobMatch(pat, name) ==
    IF pat = <<>> THEN name = <<>>
    ELSE IF Head(pat) = "*"
    THEN \E k \in 0..Len(name) :
           GlobMatch(Tail(pat), SubSeq(name, k + 1, Len(name)))
    ELSE name # <<>> /\ Head(name) = Head(pat) /\ GlobMatch(Tail(pat), Tail(name))

\* glob(join(base_dir, pattern)): the existing paths the pattern matches,
\* segment by segment
Glob(base_dir, pattern) ==
    {p \in base_dir :
       /\ Len(p) = Len(pattern)
       /\ \A i \in 1..Len(p) : GlobMatch(pattern[i], p[i])}

\* a pattern fails when it expands to no match, or to matches the first of
\* which does not exist
EntryFails(base_dir, pattern) ==
    LET found == Glob(base_dir, pattern)
    IN found = {} \/ (CHOOSE p \in found : TRUE) \notin base_dir

\* what the check returns
CheckResult(ok, message) == [kind |-> "return", ok |-> ok, message |-> message]

\* the path p and all the paths below it
Subtree(p, base_dir) ==
    {q \in base_dir : Len(q) >= Len(p) /\ SubSeq(q, 1, Len(p)) = p}

\* remove(p) of a file, rmtree(p) of a directory, between two checks
RemovePath ==
    /\ op = "validate_dir" /\ mpc = 0
    /\ \E p \in tree : tree' = tree \ Subtree(p, tree)
    /\ mres' = NoResult
    /\ evaluated' = {}
    /\ UNCHANGED <<inputs, pc, metadata, vres, rres, result, calls, html_summary>>
    /\ UNCHANGED <<out_fs, host, renv, runs, mpc>>

\* check(base_dir, manifest) is called
CheckCall ==
    /\ op = "validate_dir" /\ mpc = 0 /\ mres = NoResult
    /\ mpc' = 1
    /\ evaluated' = {}
    /\ UNCHANGED <<inputs, pc, metadata, vres, rres, result, calls, html_summary>>
    /\ UNCHANGED <<out_fs, host, renv, runs, tree, mres>>

\* the loop that goes on to the next entry whether the entry failed or not
NextEntryNoReturn(i, failed) == i + 1

\* the entry the loop is at after entry i: none after a failure, which returns
NextEntry(i, failed) == IF failed THEN 0 ELSE i + 1

\* one turn of the loop over the manifest: the entry resolves, or the check
\* returns its message at once
CheckEntry ==
    /\ op = "validate_dir" /\ mpc \in 1..Len(ManifestOf(a_type))
    /\ LET entry == ManifestOf(a_type)[mpc]
           failed == EntryFails(tree, entry.pattern)
       IN /\ evaluated' = evaluated \cup {mpc}
          /\ mres' = IF failed THEN CheckResult(FALSE, entry.message) ELSE mres
          /\ mpc' = NextEntry(mpc, failed)
    /\ UNCHANGED <<inputs, pc, metadata, vres, rres, result, calls, html_summary>>
    /\ UNCHANGED <<out_fs, host, renv, runs, tree>>

\* every entry resolved: the check returns (True, "")
CheckReturn ==
    /\ op = "validate_dir" /\ mpc = Len(ManifestOf(a_type)) + 1
    /\ mres' = CheckResult(TRUE, "")
    /\ mpc' = 0
    /\ UNCHANGED <<inputs, pc, metadata, vres, rres, result, calls, html_summary>>
    /\ UNCHANGED <<out_fs, host, renv, runs, tree, evaluated>>

\* a legacy artifact as the tests build it, complete
InitDir ==
    /\ op = "validate_dir"
    /\ a_type \in LegacyTypes
    /\ template = NoneV
    /\ analysis = NoneV
    /\ preps = <<>>
    /\ files = [directory |-> <<"tmp_dir">>]
    /\ content = <<>>
    /\ parsed = NoParse
    /\ host_md = {}
    /\ pc = "start"
    /\ metadata = NoneV
    /\ vres = NoResult
    /\ rres = NoResult
    /\ result = NoResult
    /\ calls = <<>>
    /\ html_summary = NoneV
    /\ out_fs = {}
    /\ host = {}
    /\ renv = NoneV
    /\ run = 1
    /\ first_result = NoResult
    /\ tree = FullTree(a_type)
    /\ mpc = 0
    /\ evaluated = {}
    /\ mres = NoResult

NextDir ==
    \/ RemovePath
    \/ CheckCall
    \/ CheckEntry
    \/ CheckReturn

SpecDir == InitDir /\ [][NextDir]_vars

----------------------------------------------------------------------------
(* The claims *)

\* the job is a call of validate that has ended
ValidateDone == op = "validate" /\ pc = "done"

\* the job is a call of generate_html_summary that has ended
SummaryDone == op = "summary" /\ pc = "done"

\* the per-type validator returned success
ValidatorSucceeded == vres.kind = "return" /\ vres.success

\* C1: for every type of the validator registry, once the per-type validator
\* has succeeded, validate ends having invoked the renderer of the type, and
\* what it returns is success with the files of the single ArtifactInfo
\* extended by (html_path, 'html_summary'), then by (aux_dir,
\* 'html_summary_dir') exactly when the renderer returned a directory.
C1_RendererForEveryValidatedType ==
    (ValidateDone /\ ValidatorSucceeded) =>
        /\ \E i \in 1..Len(calls) : calls[i] = Call("render", a_type)
        /\ result.kind = "return" =>
             /\ result.success
             /\ Len(result.ainfo.val) = 1
             /\ result.ainfo.val[1].files =
                  vres.ainfo.val[1].files
                  \o <<<<rres.html_fp, "html_summary">>>>
                  \o (IF rres.html_dir # NoneV
                      THEN <<<<rres.html_dir.val, "html_summary_dir">>>>
                      ELSE <<>>)

\* C2, as claimed: validate with neither 'template' nor 'analysis' returns
\* (False, None, "Missing metadata information") for every type tag,
\* registered or not, and every file group.
C2_MissingMetadataForEveryTag ==
    (ValidateDone /\ template = NoneV /\ analysis = NoneV) =>
        result = Return(FALSE, NoneV, "Missing metadata information")

\* C2, amended: validate with neither 'template' nor 'analysis' returns
\* (False, None, "Missing metadata information") for every registered type
\* tag and every file group; for a tag that is not registered it returns the
\* unknown-type failure, which is decided first.
C2_MissingMetadataForRegisteredTags ==
    (ValidateDone /\ template = NoneV /\ analysis = NoneV) =>
        IF a_type \in RegisteredTypes
        THEN result = Return(FALSE, NoneV, "Missing metadata information")
        ELSE /\ result.kind = "return" /\ ~result.success
             /\ result.error_msg # "Missing metadata information"

C2_Witness ==
    /\ ValidateDone /\ template = NoneV /\ analysis = NoneV
    /\ a_type = "SampleData" /\ "qza" \notin DOMAIN files
    /\ result = Return(FALSE, NoneV, "Missing metadata information")

C4_UnknownTypeListsFeatureData ==
    (SummaryDone /\ a_type = "BIOM" /\ result.kind = "return") =>
        result = Return(FALSE, NoneV,
                        "Unknown artifact type BIOM. Supported types: "
                        \o "FeatureData, alpha_vector, distance_matrix, "
                        \o "ordination_results")

\* C5: validate with a type tag T that is no key of the validator registry
\* returns (False, None, "Unknown artifact type T. Supported types:
\* FeatureData, SampleData, alpha_vector, distance_matrix,
\* ordination_results"): the keys in case-sensitive lexicographic order.
C5_UnknownTypeMessage ==
    (op = "validate" /\ a_type \notin RegisteredTypes /\ pc # "start") =>
        /\ pc = "done"
        /\ result = Return(FALSE, NoneV,
                           "Unknown artifact type " \o a_type \o ". Supported types: "
                           \o "FeatureData, SampleData, alpha_vector, "
                           \o "distance_matrix, ordination_results")

C5_Witness ==
    /\ ValidateDone /\ a_type = "taxa_summary"
    /\ result.kind = "return" /\ ~result.success

\* the job validates a distance matrix given as a plain-text file alone,
\* whose sample ids are all in the metadata the host answered with
DmCoveredByMetadata ==
    /\ op = "validate" /\ a_type = "distance_matrix"
    /\ files = [plain_text |-> <<PlainTextFp>>]
    /\ parsed.ok /\ metadata # NoneV /\ parsed.ids \subseteq metadata.val

\* C6, as claimed: end to end, validating such a distance matrix succeeds
\* and returns exactly one ArtifactInfo whose file list is exactly
\* [(dm_path, 'plain_text')].
C6_ValidateReturnsPlainTextOnly ==
    (DmCoveredByMetadata /\ pc = "done" /\ result.kind = "return") =>
        result = Return(TRUE,
                        Some(<<ArtifactInfo("distance_matrix",
                                            <<<<PlainTextFp, "plain_text">>>>)>>),
                        "")

\* C6, amended: for such a distance matrix the validator
\* _validate_distance_matrix succeeds with exactly one ArtifactInfo whose file
\* list is exactly [(dm_path, 'plain_text')]; validate then either raises what
\* the renderer raised or returns success with that one ArtifactInfo, its
\* file list being [(dm_path, 'plain_text'), (out_dir/index.html,
\* 'html_summary')].
C6_ValidateAddsHtmlSummary ==
    (DmCoveredByMetadata /\ pc \in {"summarize", "done"}) =>
        /\ vres = Return(TRUE,
                         Some(<<ArtifactInfo("distance_matrix",
                                             <<<<PlainTextFp, "plain_text">>>>)>>),
                         "")
        /\ pc = "done" =>
             \/ result = Raise("RenderError")
             \/ result = Return(TRUE,
                                Some(<<ArtifactInfo("distance_matrix",
                                                    << <<PlainTextFp, "plain_text">>,
                                                       <<"out/index.html", "html_summary">> >>)>>),
                                "")

C6_Witness ==
    /\ DmCoveredByMetadata /\ pc = "done" /\ result.kind = "return"
    /\ Cardinality(parsed.ids) = 2

\* the sample ids of an alpha-vector file: the first field of every line
\* after the header
AlphaIdsOf(text) ==
    {Split(Strip(RestLines(text)[i]), TAB)[1] : i \in 1..Len(RestLines(text))}

\* the number of tab-separated fields of a line, surrounding white space aside
NumFields(line) ==
    1 + Cardinality({i \in 1..Len(Strip(line)) : Strip(line)[i] = TAB})

\* every line after the header has exactly two fields
AlphaWellFormed(text) ==
    \A i \in 1..Len(RestLines(text)) : NumFields(RestLines(text)[i]) = 2

\* the identifiers parsed from the artifact of the job
ArtifactIds == IF a_type = "alpha_vector" THEN AlphaIdsOf(content) ELSE parsed.ids

MismatchMsgOf(t) ==
    CASE t = "distance_matrix" ->
           "The distance matrix contain samples not present in the metadata"
      [] t = "ordination_results" ->
           "The ordination results contain samples not present in the metadata"
      [] t = "alpha_vector" ->
           "The alpha vector contains samples not present in the metadata"

\* the job ran the validator of one of the three types that cross-check ids,
\* on an artifact whose ids could be read
IdsValidated ==
    /\ op = "validate"
    /\ a_type \in {"distance_matrix", "ordination_results", "alpha_vector"}
    /\ vres.kind = "return"
    /\ a_type = "alpha_vector" => AlphaWellFormed(content)

\* C7: for the distance_matrix, ordination_results and alpha_vector
\* validators, whatever the ids A of the artifact and the ids B of the
\* metadata, validation succeeds iff A \ B is empty, and otherwise returns
\* (False, None, the message of the type).
C7_SucceedsIffIdsCovered ==
    IdsValidated =>
        /\ vres.success <=> (ArtifactIds \ metadata.val = {})
        /\ ~vres.success => vres = Return(FALSE, NoneV, MismatchMsgOf(a_type))

C7_Witness ==
    /\ IdsValidated /\ a_type = "alpha_vector" /\ vres.success
    /\ ArtifactIds # {} /\ ArtifactIds # metadata.val

\* C8: in alpha-vector validation, a line after the header that has not
\* exactly two tab-separated fields makes the validator return (False, None,
\* "The alpha vector format is incorrect"), also when earlier well-formed
\* lines carry ids that the metadata lacks.
C8_FormatErrorFirst ==
    (/\ op = "validate" /\ a_type = "alpha_vector"
     /\ pc \in {"summarize", "done"} /\ metadata # NoneV
     /\ ~QzaIndexError(files)
     /\ ~AlphaWellFormed(content)) =>
        vres = Return(FALSE, NoneV, "The alpha vector format is incorrect")

C8_Witness ==
    /\ op = "validate" /\ a_type = "alpha_vector" /\ pc = "done"
    /\ vres = Return(FALSE, NoneV, "The alpha vector format is incorrect")
    /\ Len(RestLines(content)) = 2
    /\ NumFields(RestLines(content)[1]) = 2
    /\ NumFields(RestLines(content)[2]) # 2
    /\ Split(Strip(RestLines(content)[1]), TAB)[1] \notin metadata.val

\* C9, as claimed: metadata resolution in validate succeeds only when
\* exactly one of the prep template id and the analysis id is set.
C9_ResolvesOnlyWithExactlyOneSource ==
    (op = "validate" /\ metadata # NoneV) =>
        (template = NoneV) # (analysis = NoneV)

\* C9, amended: metadata resolution in validate fails with "Missing metadata
\* information" exactly when neither source is set; when the prep template
\* id is set, alone or together with the analysis id, the metadata of the
\* prep template is requested; when only the analysis id is set, the
\* metadata of the analysis is requested.
C9_PrepTemplateFirst ==
    (op = "validate" /\ a_type \in RegisteredTypes /\ pc \notin {"start", "collect"}) =>
        /\ calls[1].fn = "update_job_step"
        /\ IF template # NoneV
           THEN /\ Len(calls) >= 2
                /\ calls[2] = Call("get", "/qiita_db/prep_template/" \o template.val \o "/data/")
           ELSE IF analysis # NoneV
           THEN /\ Len(calls) >= 2
                /\ calls[2] = Call("get", "/qiita_db/analysis/" \o analysis.val \o "/metadata/")
           ELSE /\ Len(calls) = 1
                /\ result = Return(FALSE, NoneV, "Missing metadata information")
        /\ (template # NoneV \/ analysis # NoneV) =>
             (metadata # NoneV \/ result = Raise("NotFound"))

C9_Witness ==
    /\ op = "validate" /\ template # NoneV /\ analysis # NoneV
    /\ metadata # NoneV /\ pc = "done" /\ result.kind = "return" /\ result.success

\* C10: SampleData validation succeeds iff the file group has a 'qza' role
\* with at least one path; without it, or with an empty list, it returns
\* (False, None, 'The artifact is missing a QZA file'); on success the
\* ArtifactInfo lists [(plain_text[0], 'plain_text'), (qza[0], 'qza')].
C10_SampleDataNeedsQza ==
    (/\ op = "validate" /\ a_type = "SampleData"
     /\ pc \in {"summarize", "done"} /\ metadata # NoneV) =>
        IF "qza" \in DOMAIN files /\ Len(files["qza"]) >= 1
        THEN vres = Return(TRUE,
                           Some(<<ArtifactInfo("SampleData",
                                               << <<files["plain_text"][1], "plain_text">>,
                                                  <<files["qza"][1], "qza">> >>)>>),
                           "")
        ELSE vres = Return(FALSE, NoneV, "The artifact is missing a QZA file")

C10_Witness ==
    /\ op = "validate" /\ a_type = "SampleData" /\ pc = "done"
    /\ "qza" \in DOMAIN files /\ files["qza"] = <<>>
    /\ result = Return(FALSE, NoneV, "The artifact is missing a QZA file")

\* the first line of the file has the shape of a FeatureData header
HeaderAccepted(text) ==
    LET line == ReadLine(text)
    IN \/ Contains(line, <<"T", "a", "x">>) /\ Contains(line, <<"I", "D">>)
       \/ line # <<>> /\ line[1] = ">"

\* the job has run the FeatureData validator, on a file group that names
\* its qza file if it has the role
FeatureDataValidated ==
    /\ op = "validate" /\ a_type = "FeatureData"
    /\ pc \in {"summarize", "done"} /\ metadata # NoneV
    /\ ~QzaIndexError(files)

\* C11: FeatureData validation succeeds iff the first line of the plain-text
\* file contains both "Tax" and "ID", or starts with '>'; otherwise it returns
\* (False, None, 'The file header seems wrong "<line>"'); no line other than
\* the first affects the outcome.
C11_FirstLineDecides ==
    FeatureDataValidated =>
        IF HeaderAccepted(content)
        THEN vres.kind = "return" /\ vres.success
        ELSE vres = Return(FALSE, NoneV,
                           "The file header seems wrong \""
                           \o Concat(ReadLine(content)) \o "\"")

\* C12: on a successful render generate_html_summary patches html_summary
\* with the JSON object {"html": html_path, "dir": aux_dir} when the renderer
\* produced an auxiliary directory and with the bare HTML path otherwise: a
\* distance_matrix artifact ends with the path alone, ordination_results and
\* alpha_vector artifacts with both the path and the directory.
C12_PatchValue ==
    (SummaryDone /\ result.kind = "return" /\ result.success) =>
        /\ rres.kind = "return"
        /\ html_summary =
             Some(IF rres.html_dir = NoneV
                  THEN rres.html_fp
                  ELSE "{\"html\": \"" \o rres.html_fp
                       \o "\", \"dir\": \"" \o rres.html_dir.val \o "\"}")
        /\ a_type = "distance_matrix" =>
             html_summary = Some("out/index.html")
        /\ a_type = "ordination_results" =>
             html_summary =
               Some("{\"html\": \"out/index.html\", \"dir\": \"out/emperor_support_files\"}")
        /\ a_type = "alpha_vector" =>
             html_summary =
               Some("{\"html\": \"out/index.html\", \"dir\": \"out/support_files\"}")

C12_Witness ==
    /\ SummaryDone /\ a_type = "alpha_vector"
    /\ result = Return(TRUE, NoneV, "")
    /\ html_summary # NoneV /\ rres.html_dir # NoneV

\* the call of generate_html_summary ended after it issued the patch
PatchIssued == SummaryDone /\ calls[Len(calls)].fn = "patch"

\* C13: in generate_html_summary an exception raised by the patch call is
\* caught and reported as a soft failure: the call returns (False, None,
\* str(exception)) and does not raise.
C13_PatchExceptionCaught ==
    PatchIssued =>
        /\ result.kind = "return"
        /\ IF html_summary # NoneV
           THEN result = Return(TRUE, NoneV, "")
           ELSE \E e \in StoreErrors : result = Return(FALSE, NoneV, e)

C13_Witness ==
    /\ PatchIssued /\ html_summary = NoneV
    /\ result = Return(FALSE, NoneV, "Connection refused")

\* C14: in validate a failure of the summary renderer invoked after a
\* successful per-type validation is never turned into a soft (False, None,
\* msg) result, the exception leaves validate; every rejection of a per-type
\* validator is returned softly, without a renderer being invoked.
C14_RendererFailurePropagates ==
    ValidateDone =>
        /\ (ValidatorSucceeded /\ rres.kind = "raise") => result = rres
        /\ (ValidatorSucceeded /\ result.kind = "return") =>
             (result.success /\ rres.kind = "return")
        /\ (vres.kind = "return" /\ ~vres.success) =>
             /\ result = Return(FALSE, NoneV, vres.error_msg)
             /\ rres = NoResult

C14_Witness ==
    /\ ValidateDone /\ a_type = "alpha_vector" /\ ValidatorSucceeded
    /\ rres = Raise("RuntimeError") /\ result = Raise("RuntimeError")

\* generate_html_summary ended on an artifact record the host delivered,
\* which has neither prep information nor an analysis
SummaryWithoutMetadataSource ==
    /\ SummaryDone /\ preps = <<>> /\ analysis = NoneV
    /\ ~(Len(calls) = 1 /\ result = Raise("NotFound"))

\* C15, as claimed: generate_html_summary on an artifact that has neither
\* prep information nor an analysis fails with (False, None, "Missing
\* metadata information"), the metadata being decided before the type.
C15_MissingMetadataBeforeUnknownType ==
    SummaryWithoutMetadataSource =>
        result = Return(FALSE, NoneV, "Missing metadata information")

\* C15, amended: generate_html_summary on an artifact that has neither prep
\* information nor an analysis fails with (False, None, "Missing metadata
\* information") when the type is in the renderer registry; the UnknownType
\* check is decided before the metadata, as in validate, so for a type
\* outside the registry the call fails with the unknown-type message.
C15_UnknownTypeBeforeMissingMetadata ==
    SummaryWithoutMetadataSource =>
        /\ calls = <<Call("get", "/qiita_db/artifacts/7/")>>
        /\ IF a_type \in {"distance_matrix", "ordination_results", "alpha_vector"}
           THEN result = Return(FALSE, NoneV, "Missing metadata information")
           ELSE result = Return(FALSE, NoneV,
                                "Unknown artifact type " \o a_type
                                \o ". Supported types: alpha_vector, "
                                \o "distance_matrix, ordination_results")

C15_Witness ==
    /\ SummaryWithoutMetadataSource /\ a_type = "ordination_results"
    /\ result = Return(FALSE, NoneV, "Missing metadata information")

\* the second of two calls of validate on the same inputs has ended
SecondCallDone == op = "validate" /\ run = 2 /\ pc = "done"

\* C16, as claimed: running the same validation twice on the same inputs
\* (parameters, metadata, file group, out_dir) yields identical results for
\* every registered artifact type.
C16_SecondCallSameResult ==
    (SecondCallDone /\ a_type \in RegisteredTypes) => result = first_result

\* C16, amended: running the same validation twice on the same inputs yields
\* identical results unless the first call created
\* out_dir/emperor_support_files, which the ordination_results renderer does
\* once it gets to makedirs; the second call then raises FileExistsError,
\* which the first did not.
C16_SameResultUnlessSupportDirLeft ==
    (SecondCallDone /\ a_type \in RegisteredTypes) =>
        IF "out/emperor_support_files" \in out_fs
        THEN /\ a_type = "ordination_results"
             /\ result = Raise("FileExistsError")
             /\ first_result # Raise("FileExistsError")
        ELSE result = first_result

C16_Witness ==
    /\ SecondCallDone /\ a_type = "ordination_results"
    /\ first_result.kind = "return" /\ first_result.success
    /\ result = Raise("FileExistsError")

\* a step of a test: the paths it removes, the message it then expects
Step(removed, message) == [removed |-> removed, message |-> message]

\* the removals of the three tests, in order, with the messages asserted
TestSteps(t) ==
    CASE t = "distance_matrix" ->
           <<Step({<<EmperorName, Lit("emperor_required_resources")>>},
                  "Missing emperor required resources directory"),
             Step({<<EmperorName, Lit("index.html")>>},
                  "Missing emperor index HTML file"),
             Step({<<EmperorName>>}, "Missing emperor plots directory"),
             Step({<<PcName>>}, "Missing principal coordinates file"),
             Step({<<DmName>>}, "Missing distance matrix file"),
             Step({<<LogName>>}, "Missing log file")>>
      [] t = "rarefaction_curves" ->
           <<Step({<<Lit("alpha_rarefaction_plots"), Lit("average_plots"),
                     Lit("image.png")>>},
                  "Empty average plots directory"),
             Step({<<Lit("alpha_rarefaction_plots"), Lit("average_plots")>>},
                  "Missing average plots directory"),
             Step({<<Lit("alpha_rarefaction_plots"), Lit("rarefaction_plots.html")>>},
                  "Missing rarefaction plots HTML file"),
             Step({<<Lit("alpha_div_collated"), Lit("PD_whole_tree.txt")>>},
                  "Empty alpha_div_collated directory"),
             Step({<<Lit("alpha_rarefaction_plots")>>},
                  "Missing alpha_rarefaction_plots directory"),
             Step({<<Lit("alpha_div_collated")>>},
                  "Missing alpha_div_collated directory"),
             Step({<<LogName>>}, "Missing log file")>>
      [] t = "taxa_summary" ->
           <<Step({<<Lit("taxa_summary_plots"), Lit("raw_data"), Lit("table.txt")>>},
                  "Empty raw data directory"),
             Step({<<Lit("taxa_summary_plots"), Lit("raw_data")>>},
                  "Missing raw data directory"),
             Step({<<Lit("taxa_summary_plots"), Lit("js"), Lit("overlib.js")>>},
                  "Missing overlib js file"),
             Step({<<Lit("taxa_summary_plots"), Lit("js")>>}, "Missing js directory"),
             Step({<<Lit("taxa_summary_plots"), Lit("css"), Lit("qiime_style.css")>>},
                  "Missing qiime style css file"),
             Step({<<Lit("taxa_summary_plots"), Lit("css")>>}, "Missing css directory"),
             Step({<<Lit("taxa_summary_plots"), Lit("charts"), Lit("figure.png")>>},
                  "Empty charts directory"),
             Step({<<Lit("taxa_summary_plots"), Lit("charts")>>},
                  "Missing charts directory"),
             Step({<<Lit("taxa_summary_plots"), Lit("bar_charts.html")>>},
                  "Missing bar charts file"),
             Step({<<Lit("taxa_summary_plots"), Lit("area_charts.html")>>},
                  "Missing area charts file"),
             Step({<<Lit("taxa_summary_plots")>>},
                  "Missing taxonomy summary plots directory"),
             Step({<<TableName(i, ".txt")>> : i \in TableLevels},
                  "Missing summarized txt files"),
             Step({<<TableName(i, ".biom")>> : i \in TableLevels},
                  "Missing summarized biom files"),
             Step({<<LogName>>}, "Missing log file")>>

RECURSIVE TreeAfter(_, _)
\* the directory of the test of type t after its first k removals
TreeAfter(t, k) ==
    IF k = 0 THEN FullTree(t)
    ELSE LET before == TreeAfter(t, k - 1)
         IN before \ UNION {Subtree(p, before) : p \in TestSteps(t)[k].removed}

\* the pattern resolves to an existing path under the directory
ResolvesUnder(D, pattern) ==
    \E p \in D :
      /\ Len(p) = Len(pattern)
      /\ \A i \in 1..Len(p) : GlobMatch(pattern[i], p[i])

\* a manifest check of the legacy directory has returned
CheckDone == op = "validate_dir" /\ mpc = 0 /\ mres # NoResult

\* C17: for every directory D and ordered manifest M the check returns
\* (False, message of the first entry of M whose pattern does not resolve to
\* an existing path under D) without evaluating later entries, and (True, "")
\* iff every entry resolves; with the manifests of the three legacy types,
\* removing files step by step as the tests do yields the messages the tests
\* assert, in their order.
C17_FirstFailingEntry ==
    CheckDone =>
        LET M == ManifestOf(a_type)
            failing == {i \in 1..Len(M) : ~ResolvesUnder(tree, M[i].pattern)}
        IN /\ mres.ok <=> failing = {}
           /\ mres.ok => (mres.message = "" /\ evaluated = 1..Len(M))
           /\ ~mres.ok =>
                \E i \in failing :
                  /\ \A j \in failing : i <= j
                  /\ mres.message = M[i].message
                  /\ evaluated = 1..i
           /\ tree = FullTree(a_type) => mres = CheckResult(TRUE, "")
           /\ \A k \in 1..Len(TestSteps(a_type)) :
                tree = TreeAfter(a_type, k) =>
                  mres = CheckResult(FALSE, TestSteps(a_type)[k].message)

C17_Witness ==
    /\ CheckDone /\ a_type = "taxa_summary"
    /\ tree = TreeAfter("taxa_summary", 7)
    /\ mres = CheckResult(FALSE, "Empty charts directory")
    /\ Cardinality({i \in 1..Len(TaxaSummaryManifest) :
                      ~ResolvesUnder(tree, TaxaSummaryManifest[i].pattern)}) = 7

\* the job has run the validator of one of the four types whose qza file is
\* optional, on an artifact the validator has nothing against
AcceptedByOptionalQzaValidator ==
    /\ op = "validate"
    /\ a_type \in {"distance_matrix", "ordination_results", "alpha_vector", "FeatureData"}
    /\ pc \in {"summarize", "done"} /\ metadata # NoneV
    /\ a_type \in {"distance_matrix", "ordination_results"} =>
         (parsed.ok /\ parsed.ids \subseteq metadata.val)
    /\ a_type = "alpha_vector" =>
         (AlphaWellFormed(content) /\ AlphaIdsOf(content) \subseteq metadata.val)
    /\ a_type = "FeatureData" => HeaderAccepted(content)

\* C18: for the distance_matrix, ordination_results, alpha_vector and
\* FeatureData validators the qza file is optional and carried through: on an
\* artifact the validator accepts, the single ArtifactInfo carries the type tag
\* and the file list [(plain_text[0], 'plain_text')], followed by (qza[0],
\* 'qza') iff a qza file was supplied, for every file group, also one whose
\* 'qza' role is present but holds no path.
C18_QzaOptional ==
    AcceptedByOptionalQzaValidator =>
        vres = Return(TRUE,
                      Some(<<ArtifactInfo(
                               a_type,
                               <<<<files["plain_text"][1], "plain_text">>>>
                               \o (IF "qza" \in DOMAIN files /\ files["qza"] # <<>>
                                   THEN <<<<files["qza"][1], "qza">>>>
                                   ELSE <<>>))>>),
                      "")

\* a renderer has been invoked
RendererInvoked == \E i \in 1..Len(calls) : calls[i].fn = "render"

\* C19: every summary renderer of the registry either returns exactly a pair
\* (html_path, aux_dir_or_None) or raises, also the alpha_vector renderer
\* when its qiime tools import command exits non-zero, so that the callers'
\* unpacking into two names is well-defined.
C19_RendererReturnsPairOrRaises ==
    RendererInvoked =>
        /\ rres.kind = "raise" \/ (rres.kind = "return" /\ rres.arity = 2)
        /\ result # Raise("ValueError")

\* C20: FeatureData validation reports every header that fails the shape
\* check as a soft failure (False, None, message) and never raises, for
\* every readable plain-text file, the empty file included.
C20_FeatureDataNeverRaises ==
    FeatureDataValidated =>
        /\ vres.kind = "return"
        /\ ~HeaderAccepted(content) =>
             (~vres.success /\ vres.ainfo = NoneV /\ vres.error_msg # "")

\* the positions in the trace of the calls of the function fn
CallsOf(fn) == {i \in 1..Len(calls) : calls[i].fn = fn}

\* C21: in validate the type lookup comes before any interaction with the
\* host client: for a type tag that is not registered validate returns
\* without update_job_step and without a metadata GET; on every path the
\* order is the job-step update, then one metadata GET, then the validator,
\* then the renderer, which is invoked only if the validator succeeded.
C21_LookupBeforeHostCalls ==
    op = "validate" =>
        /\ a_type \notin RegisteredTypes => calls = <<>>
        /\ Len(calls) <= 4
        /\ \A i \in CallsOf("update_job_step") : i = 1
        /\ \A i \in CallsOf("get") :
             i = 2 /\ calls[1].fn = "update_job_step"
        /\ \A i \in CallsOf("validate") :
             i = 3 /\ calls[2].fn = "get" /\ metadata # NoneV
        /\ \A i \in CallsOf("render") :
             i = 4 /\ calls[3].fn = "validate" /\ ValidatorSucceeded
        /\ vres # NoResult => CallsOf("validate") # {}
        /\ \A i \in 1..Len(calls) :
             calls[i].fn \in {"update_job_step", "get", "validate", "render"}

C21_Witness ==
    /\ ValidateDone /\ Len(calls) = 4
    /\ calls[1].fn = "update_job_step" /\ calls[2].fn = "get"
    /\ calls[3].fn = "validate" /\ calls[4].fn = "render"
    /\ result.kind = "return" /\ result.success

\* generate_html_summary returned one of its two early soft failures
EarlySoftFailure ==
    /\ SummaryDone /\ result.kind = "return" /\ ~result.success
    /\ \/ result.error_msg = "Missing metadata information"
       \/ result.error_msg = "Unknown artifact type " \o a_type
                             \o ". Supported types: alpha_vector, "
                             \o "distance_matrix, ordination_results"

\* C22: generate_html_summary leaves the artifact record unchanged on every
\* early soft failure: when it returns UnknownType or MissingMetadata no
\* renderer was invoked and no patch was issued; on every path the patch is
\* issued at most once, and only after the renderer returned.
C22_PatchOnceAfterRenderer ==
    op = "summary" =>
        /\ EarlySoftFailure =>
             /\ CallsOf("render") = {} /\ CallsOf("patch") = {}
             /\ html_summary = NoneV
        /\ Cardinality(CallsOf("patch")) <= 1
        /\ \A i \in CallsOf("patch") :
             /\ i = Len(calls)
             /\ calls[i - 1].fn = "render"
             /\ rres.kind = "return" /\ rres.arity = 2
        /\ html_summary # NoneV => CallsOf("patch") # {}

C22_Witness ==
    /\ EarlySoftFailure /\ a_type = "alpha_vector"
    /\ preps = <<>> /\ analysis = NoneV
    /\ calls = <<Call("get", ArtifactUrl)>>

====
